---- MODULE Spec2Model ----
(***************************************************************************)
(* Outbound Hypothesis Lab: the relational store shared by                 *)
(* streamlit_outbound_lab_app.py (v1) and streamlit_outbound_lab_app_v2.py *)
(* (v2), and the handlers that write to it and read from it.               *)
(*                                                                         *)
(* Text values are sequences of one-character strings.  Python's None and  *)
(* the float NaN that pandas.read_csv yields for an empty cell are         *)
(* one-element sequences holding a marker that is not a character.         *)
(* Integer keys follow SQLite's INTEGER PRIMARY KEY rule (largest key + 1);*)
(* the key 0 stands for an absent (None) foreign key.                      *)
(***************************************************************************)
EXTENDS Integers, Sequences, FiniteSets, TLC

VARIABLES campaigns, documents, cadences, cadence_activities, accounts,
          account_signals, contacts, activities, opportunities, last, scen,
          nba, campaign_options, leads_run, creating

store == <<campaigns, documents, cadences, cadence_activities, accounts,
           account_signals, contacts, activities, opportunities>>

vars == <<campaigns, documents, cadences, cadence_activities, accounts,
          account_signals, contacts, activities, opportunities, last, scen,
          nba, campaign_options, leads_run, creating>>

(***************************************************************************)
(* The state outside the store: nba is the row of campaign counters given  *)
(* to the next-best-action classifier, with the label computed for it;     *)
(* campaign_options is the entry that st.cache_data keeps for              *)
(* list_campaign_options in the running app; leads_run is a run of the     *)
(* Leads page that has read the cadence's templates and not yet ingested;  *)
(* creating holds the campaign creations, one per browser session, that    *)
(* have passed the name lookup and not yet committed.                      *)
(***************************************************************************)
aux == <<nba, campaign_options, leads_run, creating>>

(***************************************************************************)
(* Bounds of the model.                                                    *)
(***************************************************************************)
MaxCampaigns == 2
MaxContacts == 2
MaxTemplates == 2
MaxActivities == 2
MaxOpportunities == 2
MaxAccounts == 2
MaxSignals == 2
MaxDocuments == 1
MaxRows == 2
MaxId == 3

(***************************************************************************)
(* Python values and string operations.                                    *)
(***************************************************************************)
None == <<"None">>
NaN == <<"NaN">>
NoId == 0

Truthy(v) == v # <<>> /\ v # None

Or(a, b) == IF Truthy(a) THEN a ELSE b

Str(v) == IF v = NaN THEN <<"n", "a", "n">> ELSE v

IsSpace(ch) == ch \in {" ", "\t"}

Strip(s) ==
    LET keep == {i \in 1..Len(s) : ~IsSpace(s[i])}
        lo == CHOOSE i \in keep : \A j \in keep : i <= j
        hi == CHOOSE i \in keep : \A j \in keep : j <= i
    IN IF keep = {} THEN <<>> ELSE SubSeq(s, lo, hi)

Upper == <<"A", "B", "C", "D", "E", "F", "G", "H", "I", "J", "K", "L", "M",
           "N", "O", "P", "Q", "R", "S", "T", "U", "V", "W", "X", "Y", "Z">>
LowerOf == <<"a", "b", "c", "d", "e", "f", "g", "h", "i", "j", "k", "l", "m",
             "n", "o", "p", "q", "r", "s", "t", "u", "v", "w", "x", "y", "z">>

LowerChar(ch) ==
    IF \E i \in 1..26 : Upper[i] = ch
    THEN LowerOf[CHOOSE i \in 1..26 : Upper[i] = ch]
    ELSE ch

Lower(s) == [i \in 1..Len(s) |-> LowerChar(s[i])]

Contains(s, sub) ==
    \E i \in 1..(Len(s) - Len(sub) + 1) : SubSeq(s, i, i + Len(sub) - 1) = sub

EndsWith(s, suf) ==
    Len(s) >= Len(suf) /\ SubSeq(s, Len(s) - Len(suf) + 1, Len(s)) = suf

MaxOf(S) == CHOOSE x \in S : \A y \in S : y <= x

NextId(table) == IF table = {} THEN 1 ELSE MaxOf({r.id : r \in table}) + 1

Ids(table) == {r.id : r \in table}

Row(table, id) == CHOOSE r \in table : r.id = id

Within(table, max) == Cardinality(table) <= max /\ \A r \in table : r.id <= MaxId

(***************************************************************************)
(* Initial state: Base.metadata.create_all on an empty database.           *)
(***************************************************************************)
NoOp == [op |-> "start", err |-> "none"]

NotComputed == ""

NotCached == [cached |-> FALSE, value |-> <<>>]

NoRun == [running |-> FALSE, cadence_id |-> 0, cad_acts |-> {}]

NoCounters ==
    [accounts |-> 0, leads |-> 0, engaged |-> 0, exhausted |-> 0,
     opportunities |-> 0, label |-> NotComputed]

Init ==
    /\ campaigns = {}
    /\ documents = {}
    /\ cadences = {}
    /\ cadence_activities = {}
    /\ accounts = {}
    /\ account_signals = {}
    /\ contacts = {}
    /\ activities = {}
    /\ opportunities = {}
    /\ last = NoOp
    /\ scen = 0
    /\ nba = NoCounters
    /\ campaign_options = NotCached
    /\ leads_run = NoRun
    /\ creating = {}

(***************************************************************************)
(* The scenario monitor: scen = k when the run so far is exactly the first *)
(* k steps of the end-to-end scenario of spec section 8 (create campaign,  *)
(* create cadence, ingest the two rows, add the template, convert          *)
(* a@x.com), and ScenOff otherwise.                                        *)
(***************************************************************************)
ScenOff == 0 - 1

ScenStep(k, matches) == IF scen = k - 1 /\ matches THEN k ELSE ScenOff

Done(op, err) == [op |-> op, err |-> err]

(***************************************************************************)
(* section_campaigns, "Add Campaign" form (v1 205-226, v2 406-427).        *)
(* The existence check compares the submitted name, the insert stores the  *)
(* stripped name; the UNIQUE constraint of campaigns.name rejects the      *)
(* commit when the stripped name is taken (IntegrityError, rolled back).   *)
(***************************************************************************)
CampaignNameTaken(name) == \E c \in campaigns : c.name = name

CreateCampaignOutcome_NoUniqueConstraint(name) ==
    IF ~Truthy(name) THEN "validation"
    ELSE IF CampaignNameTaken(name) THEN "exists"
    ELSE "none"

CreateCampaignOutcome(name) ==
    IF ~Truthy(name) THEN "validation"
    ELSE IF CampaignNameTaken(name) THEN "exists"
    ELSE IF CampaignNameTaken(Strip(name)) THEN "IntegrityError"
    ELSE "none"

CreateCampaignEffect(name) ==
    IF CreateCampaignOutcome(name) = "none"
    THEN campaigns \cup {[id |-> NextId(campaigns), name |-> Strip(name)]}
    ELSE campaigns

(***************************************************************************)
(* list_campaign_options (v1 164-168) under st.cache_data: the first call  *)
(* runs the query and keeps its result, later calls return the kept        *)
(* result, and list_campaign_options.clear() (v1 226), reached only after  *)
(* a committed creation, drops it.  Campaigns are inserted one per run, so *)
(* created_at grows with the key.                                          *)
(***************************************************************************)
CreatedAt(c) == c.id

RECURSIVE OrderByCreatedAtDesc(_)
OrderByCreatedAtDesc(rows) ==
    IF rows = {} THEN <<>>
    ELSE LET c == CHOOSE r \in rows : \A d \in rows : CreatedAt(d) <= CreatedAt(r)
         IN <<<<c.name, c.id>>>> \o OrderByCreatedAtDesc(rows \ {c})

list_campaign_options ==
    IF campaign_options.cached THEN campaign_options
    ELSE [cached |-> TRUE, value |-> OrderByCreatedAtDesc(campaigns)]

OptionsAfterCreate_NotCleared(name) == campaign_options

OptionsAfterCreate(name) ==
    IF CreateCampaignOutcome(name) = "none" THEN NotCached ELSE campaign_options

ListCampaignOptions ==
    /\ campaign_options' = list_campaign_options
    /\ last' = Done("list_campaign_options", "none")
    /\ UNCHANGED <<store, scen, nba, leads_run, creating>>

CreateCampaign(name) ==
    /\ Within(CreateCampaignEffect(name), MaxCampaigns)
    /\ campaigns' = CreateCampaignEffect(name)
    /\ campaign_options' = OptionsAfterCreate(name)
    /\ last' = Done("create_campaign", CreateCampaignOutcome(name))
    /\ scen' = ScenStep(1, CreateCampaignOutcome(name) = "none")
    /\ UNCHANGED <<nba, leads_run, creating>>
    /\ UNCHANGED <<documents, cadences, cadence_activities, accounts,
                   account_signals, contacts, activities, opportunities>>

(***************************************************************************)
(* The "Add Campaign" submission in two steps, for submissions of other    *)
(* browser sessions in between: the lookup of the name (v1 210), and the   *)
(* insert with its commit (v1 213-226), which the UNIQUE constraint on     *)
(* campaigns.name (v1 40) refuses when the stripped name is stored by      *)
(* then; the exception leaves the with block and the session is closed     *)
(* without the row.                                                        *)
(***************************************************************************)
Sessions == {1, 2}

CheckCampaignName(session, name) ==
    /\ ~(\E p \in creating : p.session = session)
    /\ Truthy(name)
    /\ ~CampaignNameTaken(name)
    /\ creating' = creating \cup {[session |-> session, name |-> name]}
    /\ last' = Done("check_campaign_name", "none")
    /\ scen' = ScenOff
    /\ UNCHANGED <<store, nba, campaign_options, leads_run>>

CommitOutcome_NoUniqueConstraint(name) == "none"

CommitOutcome(name) ==
    IF CampaignNameTaken(Strip(name)) THEN "IntegrityError" ELSE "none"

CommitCampaignEffect(name) ==
    IF CommitOutcome(name) = "none"
    THEN campaigns \cup {[id |-> NextId(campaigns), name |-> Strip(name)]}
    ELSE campaigns

CommitCampaign(session) ==
    \E p \in creating :
       /\ p.session = session
       /\ Within(CommitCampaignEffect(p.name), MaxCampaigns)
       /\ campaigns' = CommitCampaignEffect(p.name)
       /\ campaign_options' =
            IF CommitOutcome(p.name) = "none" THEN NotCached ELSE campaign_options
       /\ creating' = creating \ {p}
       /\ last' = Done("create_campaign", CommitOutcome(p.name))
       /\ scen' = ScenOff
       /\ UNCHANGED <<documents, cadences, cadence_activities, accounts,
                      account_signals, contacts, activities, opportunities,
                      nba, leads_run>>

(***************************************************************************)
(* section_cadences, "Create Cadence" form (v2 446-462): the form is only  *)
(* rendered, and its submission only handled, in a run that found no       *)
(* Cadence for the selected Campaign; a submission that arrives when the   *)
(* Campaign has a Cadence is ignored.                                      *)
(***************************************************************************)
HasCadence(campaign_id) == \E cad \in cadences : cad.campaign_id = campaign_id

CadenceOf(campaign_id) == CHOOSE cad \in cadences : cad.campaign_id = campaign_id

CreateCadenceEffect_Always(sel_id, name) ==
    cadences \cup
      {[id |-> NextId(cadences), campaign_id |-> sel_id, name |-> Strip(name)]}

CreateCadenceEffect(sel_id, name) ==
    IF HasCadence(sel_id) THEN cadences
    ELSE cadences \cup
           {[id |-> NextId(cadences), campaign_id |-> sel_id, name |-> Strip(name)]}

CreateCadence(sel_id, name) ==
    /\ sel_id \in Ids(campaigns)
    /\ Within(CreateCadenceEffect(sel_id, name), MaxCampaigns)
    /\ cadences' = CreateCadenceEffect(sel_id, name)
    /\ last' = Done("create_cadence", IF HasCadence(sel_id) THEN "ignored" ELSE "none")
    /\ scen' = ScenStep(2, ~HasCadence(sel_id))
    /\ UNCHANGED aux
    /\ UNCHANGED <<campaigns, documents, cadence_activities, accounts,
                   account_signals, contacts, activities, opportunities>>

(***************************************************************************)
(* section_cadences, "Add Activity to Cadence & Apply to Leads" form       *)
(* (v2 484-493): one template row, then one Activity per Contact of the    *)
(* Cadence, committed together.                                            *)
(***************************************************************************)
ActTypes == {"email", "call", "linkedin", "task"}

Intro == <<"i", "n", "t", "r", "o">>

LeadsOf_All(cadence_id) == contacts

LeadsOf(cadence_id) == {c \in contacts : c.cadence_id = cadence_id}

AddActivities_Replacing(acts, leads, type, content) ==
    LET kept == {a \in acts : a.contact_id \notin Ids(leads)}
        rank(c) == Cardinality({d \in leads : d.id < c.id})
    IN kept \cup {[id |-> NextId(kept) + rank(c), contact_id |-> c.id,
                   type |-> type, content |-> content] : c \in leads}

RECURSIVE AddActivities(_, _, _, _)
AddActivities(acts, leads, type, content) ==
    IF leads = {} THEN acts
    ELSE LET lead == CHOOSE c \in leads : \A d \in leads : c.id <= d.id
         IN AddActivities(
              acts \cup {[id |-> NextId(acts), contact_id |-> lead.id,
                          type |-> type, content |-> content]},
              leads \ {lead}, type, content)

AddCadenceActivityEffect(cadence_id, act_type, content) ==
    [cadence_activities |-> cadence_activities \cup
        {[id |-> NextId(cadence_activities), cadence_id |-> cadence_id,
          type |-> act_type, content |-> Strip(content)]},
     activities |-> AddActivities(activities, LeadsOf(cadence_id),
                                  act_type, Strip(content))]

AddCadenceActivity(cadence_id, act_type, content) ==
    LET out == AddCadenceActivityEffect(cadence_id, act_type, content)
    IN /\ cadence_id \in Ids(cadences)
       /\ Within(out.cadence_activities, MaxTemplates)
       /\ Within(out.activities, MaxActivities)
       /\ cadence_activities' = out.cadence_activities
       /\ activities' = out.activities
       /\ last' = Done("add_cadence_activity", "none")
       /\ scen' = ScenStep(4, act_type = "email" /\ content = Intro)
       /\ UNCHANGED aux
       /\ UNCHANGED <<campaigns, documents, cadences, accounts, account_signals,
                      contacts, opportunities>>

(***************************************************************************)
(* section_campaigns, "Convert to Opportunity" button (v1 396-408): the    *)
(* contact is picked among the Contacts listed for the Cadence.  The       *)
(* amount comes from a number input with min_value 0, which accepts no     *)
(* smaller value.  The handler loads the Contact by identifier and uses it *)
(* unchecked: when no row has the identifier the lookup yields None and    *)
(* reading its id raises AttributeError before anything is added.          *)
(***************************************************************************)
MinAmount == 0

EmA == <<"a", "@", "x", ".", "c", "o", "m">>
EmB == <<"b", "@", "x", ".", "c", "o", "m">>

Stages == {"New", "Qualified", "Proposal", "Won", "Lost"}

ConvertEffect_AllConverted(contact_id, stage, amount) ==
    [opportunities |-> opportunities \cup
        {[id |-> NextId(opportunities), contact_id |-> contact_id,
          stage |-> stage, amount |-> amount]},
     contacts |-> {[c EXCEPT !.status = "converted"] : c \in contacts}]

ConvertEffect(contact_id, stage, amount) ==
    [opportunities |-> opportunities \cup
        {[id |-> NextId(opportunities), contact_id |-> contact_id,
          stage |-> stage, amount |-> amount]},
     contacts |-> {IF c.id = contact_id THEN [c EXCEPT !.status = "converted"] ELSE c
                   : c \in contacts}]

ConvertOutcome_OncePerContact(contact_id, amount) ==
    IF amount < MinAmount THEN "validation"
    ELSE IF contact_id \notin Ids(contacts) THEN "AttributeError"
    ELSE IF \E o \in opportunities : o.contact_id = contact_id THEN "exists"
    ELSE "none"

ConvertOutcome_NoLookup(contact_id, amount) ==
    IF amount < MinAmount THEN "validation" ELSE "none"

ConvertOutcome_NoMinimum(contact_id, amount) ==
    IF contact_id \notin Ids(contacts) THEN "AttributeError" ELSE "none"

ConvertOutcome(contact_id, amount) ==
    IF amount < MinAmount THEN "validation"
    ELSE IF contact_id \notin Ids(contacts) THEN "AttributeError"
    ELSE "none"

ConvertResult(contact_id, stage, amount) ==
    IF ConvertOutcome(contact_id, amount) = "none"
    THEN ConvertEffect(contact_id, stage, amount)
    ELSE [opportunities |-> opportunities, contacts |-> contacts]

ConvertContact(contact_id, stage, amount) ==
    LET out == ConvertResult(contact_id, stage, amount)
    IN /\ Within(out.opportunities, MaxOpportunities)
       /\ opportunities' = out.opportunities
       /\ contacts' = out.contacts
       /\ last' = Done("convert", ConvertOutcome(contact_id, amount))
       /\ scen' = ScenStep(5, /\ ConvertOutcome(contact_id, amount) = "none"
                              /\ Row(contacts, contact_id).email = EmA
                              /\ stage = "Qualified" /\ amount = 500)
       /\ UNCHANGED aux
       /\ UNCHANGED <<campaigns, documents, cadences, cadence_activities, accounts,
                      account_signals, activities>>

(***************************************************************************)
(* The DataFrame of pandas.read_csv: the set of its columns and a sequence *)
(* of rows; a cell is NaN (empty field) or a text.  row.get(col, default)  *)
(* yields the default only when the column is missing.                     *)
(***************************************************************************)
RowGet(df, row, col, default) == IF col \in df.cols THEN row[col] ELSE default

TemplatesOf_All(cadence_id) == cadence_activities

TemplatesOf(cadence_id) == {t \in cadence_activities : t.cadence_id = cadence_id}

RECURSIVE ApplyTemplates_Dedup(_, _, _)
ApplyTemplates_Dedup(acts, contact_id, cad_acts) ==
    IF cad_acts = {} THEN acts
    ELSE LET ca == CHOOSE t \in cad_acts : \A u \in cad_acts : t.id <= u.id
             dup == \E a \in acts : /\ a.contact_id = contact_id
                                     /\ a.type = ca.type /\ a.content = ca.content
         IN ApplyTemplates_Dedup(
              IF dup THEN acts
              ELSE acts \cup {[id |-> NextId(acts), contact_id |-> contact_id,
                               type |-> ca.type, content |-> ca.content]},
              contact_id, cad_acts \ {ca})

RECURSIVE ApplyTemplates(_, _, _)
ApplyTemplates(acts, contact_id, cad_acts) ==
    IF cad_acts = {} THEN acts
    ELSE LET ca == CHOOSE t \in cad_acts : \A u \in cad_acts : t.id <= u.id
         IN ApplyTemplates(
              acts \cup {[id |-> NextId(acts), contact_id |-> contact_id,
                          type |-> ca.type, content |-> ca.content]},
              contact_id, cad_acts \ {ca})

(***************************************************************************)
(* One iteration of the ingestion loop (v1 331-369, v2 532-572) on the     *)
(* session's view st of the tables.  cad_acts is the template list read    *)
(* before the loop (v2 520-521); v1 has no templates to apply.  Queries    *)
(* autoflush, so a row sees the rows added earlier in the same batch.      *)
(***************************************************************************)
ResolveAccount_Committed(st, df, row) ==
    LET acct_name == Strip(Str(RowGet(df, row, "account_name", <<>>)))
    IN IF ~Truthy(acct_name) THEN [accounts |-> st.accounts, account_id |-> NoId]
       ELSE IF \E a \in accounts : a.name = acct_name
       THEN [accounts |-> st.accounts,
             account_id |-> (CHOOSE a \in accounts : a.name = acct_name).id]
       ELSE [accounts |-> st.accounts \cup
               {[id |-> NextId(st.accounts), name |-> acct_name,
                 industry |-> Or(Str(RowGet(df, row, "account_industry", <<>>)), None),
                 website |-> Or(Str(RowGet(df, row, "account_website", <<>>)), None)]},
             account_id |-> NextId(st.accounts)]

ResolveAccount(st, df, row) ==
    LET acct_name == Strip(Str(RowGet(df, row, "account_name", <<>>)))
    IN IF ~Truthy(acct_name) THEN [accounts |-> st.accounts, account_id |-> NoId]
       ELSE IF \E a \in st.accounts : a.name = acct_name
       THEN [accounts |-> st.accounts,
             account_id |-> (CHOOSE a \in st.accounts : a.name = acct_name).id]
       ELSE [accounts |-> st.accounts \cup
               {[id |-> NextId(st.accounts), name |-> acct_name,
                 industry |-> Or(Str(RowGet(df, row, "account_industry", <<>>)), None),
                 website |-> Or(Str(RowGet(df, row, "account_website", <<>>)), None)]},
             account_id |-> NextId(st.accounts)]

UpdateExisting_ResetStatus(existing, df, row, account_id) ==
    [existing EXCEPT
       !.account_id = IF account_id # NoId THEN account_id ELSE existing.account_id,
       !.status = "new"]

UpdateExisting(existing, df, row, account_id) ==
    [existing EXCEPT
       !.first_name = Or(Str(RowGet(df, row, "first_name", Or(existing.first_name, <<>>))),
                         existing.first_name),
       !.last_name = Or(Str(RowGet(df, row, "last_name", Or(existing.last_name, <<>>))),
                        existing.last_name),
       !.title = Or(Str(RowGet(df, row, "title", Or(existing.title, <<>>))),
                    existing.title),
       !.account_id = IF account_id # NoId THEN account_id ELSE existing.account_id]

NewContact(id, cadence_id, email, df, row, account_id) ==
    [id |-> id, cadence_id |-> cadence_id, email |-> email,
     first_name |-> Or(Str(RowGet(df, row, "first_name", <<>>)), None),
     last_name |-> Or(Str(RowGet(df, row, "last_name", <<>>)), None),
     title |-> Or(Str(RowGet(df, row, "title", <<>>)), None),
     account_id |-> account_id, status |-> "new"]

RowEmail(df, row) == Strip(Str(RowGet(df, row, "email", <<>>)))

FindExisting_NoAutoflush(st, cadence_id, email) ==
    {c \in contacts : c.cadence_id = cadence_id /\ c.email = email}

FindExisting(st, cadence_id, email) ==
    {c \in st.contacts : c.cadence_id = cadence_id /\ c.email = email}

IngestRow(st, cadence_id, df, row, cad_acts) ==
    LET email == RowEmail(df, row)
        res == ResolveAccount(st, df, row)
        found == FindExisting(st, cadence_id, email)
        existing == CHOOSE c \in found : TRUE
        contact_id == IF found # {} THEN existing.id ELSE NextId(st.contacts)
    IN IF ~Truthy(email) THEN st
       ELSE [accounts |-> res.accounts,
             contacts |->
               IF found # {}
               THEN (st.contacts \ {existing}) \cup
                      {UpdateExisting(existing, df, row, res.account_id)}
               ELSE st.contacts \cup
                      {NewContact(contact_id, cadence_id, email, df, row, res.account_id)},
             activities |-> ApplyTemplates(st.activities, contact_id, cad_acts),
             ingested |-> st.ingested + 1]

RECURSIVE IngestRows(_, _, _, _, _)
IngestRows(st, cadence_id, df, i, cad_acts) ==
    IF i > Len(df.rows) THEN st
    ELSE IngestRows(IngestRow(st, cadence_id, df, df.rows[i], cad_acts),
                    cadence_id, df, i + 1, cad_acts)

(***************************************************************************)
(* "Ingest Contacts" (v1 328-371) and "Ingest Leads & Apply Cadence        *)
(* Activities" (v2 529-574): the loop over the rows and one commit;        *)
(* ingested is the number reported to the user.                            *)
(***************************************************************************)
Session == [accounts |-> accounts, contacts |-> contacts,
            activities |-> activities, ingested |-> 0]

IngestResult(cadence_id, df, cad_acts) ==
    IngestRows(Session, cadence_id, df, 1, cad_acts)

Ingest(cadence_id, df, cad_acts) ==
    LET out == IngestResult(cadence_id, df, cad_acts)
    IN /\ cadence_id \in Ids(cadences)
       /\ Within(out.contacts, MaxContacts)
       /\ Within(out.accounts, MaxAccounts)
       /\ Within(out.activities, MaxActivities)
       /\ accounts' = out.accounts
       /\ contacts' = out.contacts
       /\ activities' = out.activities
       /\ UNCHANGED <<nba, campaign_options, creating>>
       /\ UNCHANGED <<campaigns, documents, cadences, cadence_activities,
                      account_signals, opportunities>>

(***************************************************************************)
(* An ingestion in which the processing of row fail_at raises (a database  *)
(* error at one of its queries or flushes): the loop has flushed the rows  *)
(* before it into the session's transaction, the exception leaves the with *)
(* block before the commit that follows the loop (v1 370, v2 573), and the *)
(* closing session discards the transaction.  fail_at = 0: no row raises.  *)
(***************************************************************************)
Prefix(df, n) == [df EXCEPT !.rows = SubSeq(df.rows, 1, n)]

Pending(cadence_id, df, cad_acts, fail_at) ==
    IngestResult(cadence_id, Prefix(df, fail_at - 1), cad_acts)

IngestCommitted_PerRow(cadence_id, df, cad_acts, fail_at) ==
    IF fail_at = 0 THEN IngestResult(cadence_id, df, cad_acts)
    ELSE Pending(cadence_id, df, cad_acts, fail_at)

IngestCommitted(cadence_id, df, cad_acts, fail_at) ==
    IF fail_at = 0 THEN IngestResult(cadence_id, df, cad_acts) ELSE Session

IngestAborted(cadence_id, df, cad_acts, fail_at, op) ==
    LET out == IngestCommitted(cadence_id, df, cad_acts, fail_at)
        pending == Pending(cadence_id, df, cad_acts, fail_at)
    IN /\ cadence_id \in Ids(cadences)
       /\ fail_at \in 1..Len(df.rows)
       /\ Within(out.contacts, MaxContacts)
       /\ Within(out.accounts, MaxAccounts)
       /\ Within(out.activities, MaxActivities)
       /\ accounts' = out.accounts
       /\ contacts' = out.contacts
       /\ activities' = out.activities
       /\ last' = Done(op, IF pending = Session THEN "error" ELSE "rollback")
       /\ scen' = ScenOff
       /\ UNCHANGED aux
       /\ UNCHANGED <<campaigns, documents, cadences, cadence_activities,
                      account_signals, opportunities>>

IngestV1Aborted(cadence_id, df, fail_at) ==
    IngestAborted(cadence_id, df, {}, fail_at, "ingest_v1")

IngestV2Aborted(cadence_id, df, fail_at) ==
    IngestAborted(cadence_id, df, TemplatesOf(cadence_id), fail_at, "ingest_v2")

HeadOfSEO == <<"H", "e", "a", "d", " ", "o", "f", " ", "S", "E", "O">>
SalesRep == <<"S", "a", "l", "e", "s", " ", "R", "e", "p">>

IsScenDf(df) ==
    /\ df.cols = {"email", "title"}
    /\ Len(df.rows) = 2
    /\ df.rows[1]["email"] = EmA /\ df.rows[1]["title"] = HeadOfSEO
    /\ df.rows[2]["email"] = EmB /\ df.rows[2]["title"] = SalesRep

IngestV1(cadence_id, df) ==
    /\ Ingest(cadence_id, df, {})
    /\ last' = Done("ingest_v1", "none")
    /\ scen' = ScenStep(3, IsScenDf(df))
    /\ UNCHANGED leads_run

IngestV2(cadence_id, df) ==
    /\ Ingest(cadence_id, df, TemplatesOf(cadence_id))
    /\ last' = Done("ingest_v2", "none")
    /\ scen' = ScenStep(3, IsScenDf(df))
    /\ UNCHANGED leads_run

(***************************************************************************)
(* The same run of section_leads in two steps, for runs of other browser   *)
(* sessions in between: the template list is read in a session of its own  *)
(* (v2 520-521) that is closed before the CSV is parsed, and the ingestion *)
(* (v2 529-574) applies the list that was read.                            *)
(***************************************************************************)
ReadCadenceActivities(cadence_id) ==
    /\ cadence_id \in Ids(cadences)
    /\ ~leads_run.running
    /\ leads_run' = [running |-> TRUE, cadence_id |-> cadence_id,
                     cad_acts |-> TemplatesOf(cadence_id)]
    /\ last' = Done("read_cadence_activities", "none")
    /\ scen' = ScenOff
    /\ UNCHANGED <<store, nba, campaign_options, creating>>

IngestLeads(df) ==
    /\ leads_run.running
    /\ Ingest(leads_run.cadence_id, df, leads_run.cad_acts)
    /\ leads_run' = NoRun
    /\ last' = Done("ingest_v2", "none")
    /\ scen' = ScenOff

(***************************************************************************)
(* section_accounts, "Add Account" form (v1 452-462) and "Add Signal" form *)
(* (v1 486-493).                                                           *)
(***************************************************************************)
AccountNameTaken(name) == \E a \in accounts : a.name = name

CreateAccountOutcome(name) ==
    IF ~Truthy(name) THEN "validation"
    ELSE IF AccountNameTaken(name) THEN "exists"
    ELSE IF AccountNameTaken(Strip(name)) THEN "IntegrityError"
    ELSE "none"

CreateAccountEffect(name, industry, website) ==
    IF CreateAccountOutcome(name) = "none"
    THEN accounts \cup {[id |-> NextId(accounts), name |-> Strip(name),
                         industry |-> Or(industry, None), website |-> Or(website, None)]}
    ELSE accounts

CreateAccount(name, industry, website) ==
    /\ Within(CreateAccountEffect(name, industry, website), MaxAccounts)
    /\ accounts' = CreateAccountEffect(name, industry, website)
    /\ last' = Done("create_account", CreateAccountOutcome(name))
    /\ scen' = ScenOff
    /\ UNCHANGED aux
    /\ UNCHANGED <<campaigns, documents, cadences, cadence_activities,
                   account_signals, contacts, activities, opportunities>>

AddSignalEffect(acct_id, sig_type, details) ==
    IF ~Truthy(sig_type) THEN account_signals
    ELSE account_signals \cup
           {[id |-> NextId(account_signals), account_id |-> acct_id,
             signal_type |-> Strip(sig_type), details |-> Or(details, None)]}

AddSignal(acct_id, sig_type, details) ==
    /\ acct_id \in Ids(accounts)
    /\ Within(AddSignalEffect(acct_id, sig_type, details), MaxSignals)
    /\ account_signals' = AddSignalEffect(acct_id, sig_type, details)
    /\ last' = Done("add_signal", IF Truthy(sig_type) THEN "none" ELSE "validation")
    /\ scen' = ScenOff
    /\ UNCHANGED aux
    /\ UNCHANGED <<campaigns, documents, cadences, cadence_activities, accounts,
                   contacts, activities, opportunities>>

(***************************************************************************)
(* section_campaigns, "Save Document" button (v1 261-271) with             *)
(* save_uploaded_file (v1 171-181): the stored path ends with the uploaded *)
(* file's name; written tells whether the file write succeeded.            *)
(***************************************************************************)
UploadDir == <<"u", "p", "/">>

save_uploaded_file(upload_name, written) ==
    IF written THEN UploadDir \o upload_name ELSE None

SaveDocumentOutcome_PathUnchecked(up_name, upload_name, written) ==
    IF ~Truthy(up_name) \/ upload_name = None THEN "validation"
    ELSE "none"

SaveDocumentOutcome(up_name, upload_name, written) ==
    IF ~Truthy(up_name) \/ upload_name = None THEN "validation"
    ELSE IF save_uploaded_file(upload_name, written) = None THEN "storage"
    ELSE "none"

SaveDocumentEffect(campaign_id, up_name, upload_name, written) ==
    IF SaveDocumentOutcome(up_name, upload_name, written) = "none"
    THEN documents \cup
           {[id |-> NextId(documents), campaign_id |-> campaign_id,
             name |-> Strip(up_name),
             file_path |-> save_uploaded_file(upload_name, written)]}
    ELSE documents

SaveDocument(campaign_id, up_name, upload_name, written) ==
    /\ campaign_id \in Ids(campaigns)
    /\ Within(SaveDocumentEffect(campaign_id, up_name, upload_name, written),
              MaxDocuments)
    /\ documents' = SaveDocumentEffect(campaign_id, up_name, upload_name, written)
    /\ last' = Done("save_document", SaveDocumentOutcome(up_name, upload_name, written))
    /\ scen' = ScenOff
    /\ UNCHANGED aux
    /\ UNCHANGED <<campaigns, cadences, cadence_activities, accounts,
                   account_signals, contacts, activities, opportunities>>

(***************************************************************************)
(* _classify_department (v1 512-522, v2 198-208).                          *)
(***************************************************************************)
_classify_department_ManagementFirst(title) ==
    IF ~Truthy(title) THEN "None"
    ELSE LET t == Lower(title)
         IN IF \/ Contains(t, <<"v", "p">>)
               \/ Contains(t, <<"h", "e", "a", "d">>)
               \/ Contains(t, <<"d", "i", "r", "e", "c", "t", "o", "r">>)
               \/ Contains(t, <<"m", "a", "n", "a", "g", "e", "r">>)
            THEN "Mrktg: Management"
            ELSE IF Contains(t, <<"s", "e", "o">>) THEN "Mrktg: SEO"
            ELSE IF Contains(t, <<"m", "a", "r", "k", "e", "t", "i", "n", "g">>)
            THEN "Mrktg: General"
            ELSE "None"

_classify_department_CaseSensitive(title) ==
    IF ~Truthy(title) THEN "None"
    ELSE LET t == title
         IN IF Contains(t, <<"s", "e", "o">>) THEN "Mrktg: SEO"
            ELSE IF \/ Contains(t, <<"v", "p">>)
                    \/ Contains(t, <<"h", "e", "a", "d">>)
                    \/ Contains(t, <<"d", "i", "r", "e", "c", "t", "o", "r">>)
                    \/ Contains(t, <<"m", "a", "n", "a", "g", "e", "r">>)
            THEN "Mrktg: Management"
            ELSE IF Contains(t, <<"m", "a", "r", "k", "e", "t", "i", "n", "g">>)
            THEN "Mrktg: General"
            ELSE "None"

_classify_department(title) ==
    IF ~Truthy(title) THEN "None"
    ELSE LET t == Lower(title)
         IN IF Contains(t, <<"s", "e", "o">>) THEN "Mrktg: SEO"
            ELSE IF \/ Contains(t, <<"v", "p">>)
                    \/ Contains(t, <<"h", "e", "a", "d">>)
                    \/ Contains(t, <<"d", "i", "r", "e", "c", "t", "o", "r">>)
                    \/ Contains(t, <<"m", "a", "n", "a", "g", "e", "r">>)
            THEN "Mrktg: Management"
            ELSE IF Contains(t, <<"m", "a", "r", "k", "e", "t", "i", "n", "g">>)
            THEN "Mrktg: General"
            ELSE "None"

(***************************************************************************)
(* section_overview, the derived metrics of one Campaign (v1 538-605,      *)
(* v2 227-278).  Every query below the cadence lookup is guarded by the    *)
(* emptiness of the list it filters on.                                    *)
(***************************************************************************)
RECURSIVE DeptLabels(_, _)
DeptLabels(cs, labels) ==
    IF cs = {} THEN labels
    ELSE LET c == CHOOSE x \in cs : \A y \in cs : x.id <= y.id
             dep == _classify_department(c.title)
         IN DeptLabels(cs \ {c},
                       IF dep # "None" /\ ~(\E i \in 1..Len(labels) : labels[i] = dep)
                       THEN Append(labels, dep) ELSE labels)

MetricsContacts_All(campaign_id) == contacts

MetricsContacts(campaign_id) ==
    IF HasCadence(campaign_id) THEN LeadsOf(CadenceOf(campaign_id).id) ELSE {}

RECURSIVE AccountIdsOf(_)
AccountIdsOf(cs) ==
    IF cs = {} THEN <<>>
    ELSE LET c == CHOOSE x \in cs : \A y \in cs : x.id <= y.id
         IN (IF c.account_id # NoId THEN <<c.account_id>> ELSE <<>>)
              \o AccountIdsOf(cs \ {c})

CountAccounts_Len(account_ids) == Len(account_ids)

CountAccounts(account_ids) ==
    Cardinality({account_ids[i] : i \in DOMAIN account_ids})

SignalsIn_All(account_ids) == account_signals

SignalsIn(account_ids) ==
    {sg \in account_signals : \E i \in DOMAIN account_ids : sg.account_id = account_ids[i]}

EngagedLeads_PerActivity(acts) == Cardinality(acts)

EngagedLeads(acts) ==
    IF acts # {} THEN Cardinality({a.contact_id : a \in acts}) ELSE 0

Metrics(campaign_id) ==
    LET cs == MetricsContacts(campaign_id)
        contact_ids == Ids(cs)
        account_ids == AccountIdsOf(cs)
        signals == IF account_ids # <<>> THEN SignalsIn(account_ids) ELSE {}
        opps == IF contact_ids # {}
                THEN {o \in opportunities : o.contact_id \in contact_ids} ELSE {}
        acts == IF contact_ids # {}
                THEN {a \in activities : a.contact_id \in contact_ids} ELSE {}
        docs == {d \in documents : d.campaign_id = campaign_id}
        pptx == {d \in docs : EndsWith(Lower(d.file_path), <<".", "p", "p", "t", "x">>)}
    IN [has_pptx |-> IF Cardinality(pptx) > 0 THEN "v" ELSE "",
        has_cadence |-> IF HasCadence(campaign_id) THEN "v" ELSE "",
        accounts |-> CountAccounts(account_ids),
        leads |-> Cardinality(cs),
        dept_labels |-> DeptLabels(cs, <<>>),
        seo |-> Cardinality({c \in cs : _classify_department(c.title) = "Mrktg: SEO"}),
        management |->
          Cardinality({c \in cs : _classify_department(c.title) = "Mrktg: Management"}),
        engaged_leads |-> EngagedLeads(acts),
        exhausted_leads |->
          IF cs # {} THEN Cardinality({c \in cs : c.status = "paused"}) ELSE 0,
        reply_rate |-> 0,
        meeting_rate |-> 0,
        signals |-> Cardinality(signals),
        opportunities |-> Cardinality(opps)]

(***************************************************************************)
(* Session.delete(campaign) under the cascade="all, delete-orphan"         *)
(* relationships Campaign.cadence, Campaign.documents (v2 50-51),          *)
(* Cadence.contacts, Cadence.cadence_activities (v2 75-76),                *)
(* Contact.activities and Contact.opportunities (v2 128-129).  No handler  *)
(* of either app calls it; it is the delete that the declarations define.  *)
(***************************************************************************)
CascadeCadences(campaign_id) == {cad \in cadences : cad.campaign_id = campaign_id}

CascadeContacts(cads) == {c \in contacts : c.cadence_id \in Ids(cads)}

CascadeTemplates(cads) == {t \in cadence_activities : t.cadence_id \in Ids(cads)}

CascadeActivities_None(cs) == {}

CascadeActivities(cs) == {a \in activities : a.contact_id \in Ids(cs)}

CascadeOpportunities(cs) == {o \in opportunities : o.contact_id \in Ids(cs)}

CascadeDocuments(campaign_id) == {d \in documents : d.campaign_id = campaign_id}

DeleteCampaignEffect(campaign_id) ==
    LET cads == CascadeCadences(campaign_id)
        cs == CascadeContacts(cads)
    IN [campaigns |-> {c \in campaigns : c.id # campaign_id},
        documents |-> documents \ CascadeDocuments(campaign_id),
        cadences |-> cadences \ cads,
        cadence_activities |-> cadence_activities \ CascadeTemplates(cads),
        contacts |-> contacts \ cs,
        activities |-> activities \ CascadeActivities(cs),
        opportunities |-> opportunities \ CascadeOpportunities(cs)]

DeleteCampaign(campaign_id) ==
    LET out == DeleteCampaignEffect(campaign_id)
    IN /\ campaign_id \in Ids(campaigns)
       /\ campaigns' = out.campaigns
       /\ documents' = out.documents
       /\ cadences' = out.cadences
       /\ cadence_activities' = out.cadence_activities
       /\ contacts' = out.contacts
       /\ activities' = out.activities
       /\ opportunities' = out.opportunities
       /\ last' = Done("delete_campaign", "none")
       /\ scen' = ScenOff
       /\ UNCHANGED aux
       /\ UNCHANGED <<accounts, account_signals>>

(***************************************************************************)
(* The next-best-action classifier of the demo variant, whose code is not  *)
(* among the two applications: the rules of the specification, section     *)
(* 4.5, applied in their order.  The ratio of exhausted leads to leads is  *)
(* taken over a denominator of at least 1 and compared with 0.70 in        *)
(* hundredths.                                                             *)
(***************************************************************************)
ActionLabels ==
    {"Reveal More Contacts", "Bring more leads", "Wait for more engagement",
     "Consider modify campaign", "Consider disqualify cadence"}

DefaultAction == "Consider disqualify cadence"

Denominator(lead_count) == IF lead_count < 1 THEN 1 ELSE lead_count

next_best_action_LeadsFirst(account_count, lead_count, engaged_count, exhausted_count, opportunity_count) ==
    IF lead_count < 30 THEN "Bring more leads"
    ELSE IF account_count < 10 THEN "Reveal More Contacts"
    ELSE IF engaged_count < 30 THEN "Wait for more engagement"
    ELSE IF /\ exhausted_count * 100 > 70 * Denominator(lead_count)
            /\ opportunity_count < 2
    THEN "Consider modify campaign"
    ELSE DefaultAction

next_best_action(account_count, lead_count, engaged_count, exhausted_count, opportunity_count) ==
    IF account_count < 10 THEN "Reveal More Contacts"
    ELSE IF lead_count < 30 THEN "Bring more leads"
    ELSE IF engaged_count < 30 THEN "Wait for more engagement"
    ELSE IF Denominator(lead_count) = 0 THEN "ZeroDivisionError"
    ELSE IF /\ exhausted_count * 100 > 70 * Denominator(lead_count)
            /\ opportunity_count < 2
    THEN "Consider modify campaign"
    ELSE DefaultAction

NextBestAction ==
    /\ nba.label = NotComputed
    /\ nba' = [nba EXCEPT !.label =
                 next_best_action(nba.accounts, nba.leads, nba.engaged,
                                  nba.exhausted, nba.opportunities)]
    /\ UNCHANGED <<store, last, scen, campaign_options, leads_run, creating>>

(***************************************************************************)
(* Input values.                                                           *)
(***************************************************************************)
NameQ1 == <<"Q", "1">>
NameQ1Padded == <<"Q", "1", " ">>
NameB == <<"B">>
Blank == <<" ">>
FiveStep == <<"5", "-", "s", "t", "e", "p">>
EmAPadded == <<" ", "a", "@", "x", ".", "c", "o", "m">>
Al == <<"A", "l">>
Li == <<"L", "i">>
Acme == <<"A", "c", "m", "e">>
AcmePadded == <<"A", "c", "m", "e", " ">>
Tech == <<"T", "e", "c", "h">>
Hire == <<"H", "i", "r", "e">>
Deck == <<"d", ".", "P", "P", "T", "X">>

VPMarketing == <<"V", "P", " ", "M", "a", "r", "k", "e", "t", "i", "n", "g">>
Marketing == <<"M", "a", "r", "k", "e", "t", "i", "n", "g">>
Director == <<"D", "i", "r", "e", "c", "t", "o", "r">>
Manager == <<"m", "a", "n", "a", "g", "e", "r">>
HeadUpper == <<"H", "E", "A", "D">>

AllCols == {"email", "first_name", "last_name", "title", "account_name",
            "account_industry", "account_website"}

DfsOf(cols, rows) ==
    {[cols |-> cols, rows |-> rr] : rr \in UNION {[1..k -> rows] : k \in 1..MaxRows}}

(***************************************************************************)
(* Spec: one campaign and its cadence, the scenario's CSV rows, one        *)
(* template and conversions.                                               *)
(***************************************************************************)
RowsScen == {[email |-> EmA, title |-> HeadOfSEO], [email |-> EmB, title |-> SalesRep]}

DfsScen == DfsOf({"email", "title"}, RowsScen)

Conversions == {<<"New", 0>>, <<"Qualified", 500>>}

Next ==
    \/ CreateCampaign(NameQ1)
    \/ \E sel_id \in Ids(campaigns) : CreateCadence(sel_id, FiveStep)
    \/ \E cad \in Ids(cadences) : AddCadenceActivity(cad, "email", Intro)
    \/ \E cad \in Ids(cadences), df \in DfsScen : IngestV1(cad, df)
    \/ \E cad \in Ids(cadences), df \in DfsScen : IngestV2(cad, df)
    \/ \E cid \in Ids(contacts), sa \in Conversions : ConvertContact(cid, sa[1], sa[2])

Spec == Init /\ [][Next]_vars

(***************************************************************************)
(* SpecUnique: two campaigns with their cadences, templates, and the two   *)
(* ingestion handlers over CSV files whose email cells are empty (NaN),    *)
(* blank, padded or repeated.                                              *)
(***************************************************************************)
RowsEmail == [email : {NaN, Blank, EmA, EmAPadded, EmB}]

DfsUnique == DfsOf({"email"}, RowsEmail)

NextUnique ==
    \/ \E name \in {NameQ1, NameB} : CreateCampaign(name)
    \/ \E sel_id \in Ids(campaigns) : CreateCadence(sel_id, FiveStep)
    \/ \E cad \in Ids(cadences), c \in {Intro, Intro \o Blank} :
         AddCadenceActivity(cad, "email", c)
    \/ \E cad \in Ids(cadences), df \in DfsUnique : IngestV1(cad, df)
    \/ \E cad \in Ids(cadences), df \in DfsUnique : IngestV2(cad, df)

SpecUnique == Init /\ [][NextUnique]_vars

(***************************************************************************)
(* SpecUpsert: one campaign and its cadence; CSV files with all columns,   *)
(* with the email column only and without the email column, whose cells    *)
(* are filled, empty (NaN) or blank.                                       *)
(***************************************************************************)
RowsFull ==
    {[email |-> EmA, first_name |-> Al, last_name |-> Li, title |-> SalesRep,
      account_name |-> Acme, account_industry |-> Tech, account_website |-> NaN],
     [email |-> EmA, first_name |-> NaN, last_name |-> Blank, title |-> NaN,
      account_name |-> Blank, account_industry |-> NaN, account_website |-> NaN],
     [email |-> Blank, first_name |-> Al, last_name |-> Li, title |-> HeadOfSEO,
      account_name |-> Acme, account_industry |-> Tech, account_website |-> NaN],
     [email |-> NaN, first_name |-> Al, last_name |-> NaN, title |-> HeadOfSEO,
      account_name |-> NaN, account_industry |-> NaN, account_website |-> NaN]}

RowsNoEmail == [title : {SalesRep}, account_name : {Acme}]

DfsUpsert ==
    DfsOf(AllCols, RowsFull)
      \cup DfsOf({"email"}, [email : {EmA, EmB}])
      \cup DfsOf({"title", "account_name"}, RowsNoEmail)

NextUpsert ==
    \/ CreateCampaign(NameQ1)
    \/ \E sel_id \in Ids(campaigns) : CreateCadence(sel_id, FiveStep)
    \/ \E cad \in Ids(cadences), ty \in {"email", "call"} :
         AddCadenceActivity(cad, ty, Intro)
    \/ \E cad \in Ids(cadences), df \in DfsUpsert : IngestV1(cad, df)
    \/ \E cad \in Ids(cadences), df \in DfsUpsert : IngestV2(cad, df)

SpecUpsert == Init /\ [][NextUpsert]_vars

(***************************************************************************)
(* SpecCampaigns: the campaign and cadence forms with empty, blank, padded *)
(* and repeated names, and document uploads.                               *)
(***************************************************************************)
CampaignNames == {<<>>, Blank, NameQ1, NameQ1Padded, NameB}

NextCampaigns ==
    \/ \E name \in CampaignNames : CreateCampaign(name)
    \/ \E sel_id \in Ids(campaigns), name \in {<<>>, FiveStep} : CreateCadence(sel_id, name)
    \/ \E c \in Ids(campaigns), up \in {<<>>, Deck}, f \in {None, Deck}, w \in BOOLEAN :
         SaveDocument(c, up, f, w)

SpecCampaigns == Init /\ [][NextCampaigns]_vars

(***************************************************************************)
(* SpecStore: the handlers that write the rows the metrics read, one input *)
(* each, so that every such table is populated under two campaigns.        *)
(***************************************************************************)
RowsStore == {[email |-> EmA, title |-> HeadOfSEO, account_name |-> Acme]}

DfsStore == DfsOf({"email", "title", "account_name"}, RowsStore)

NextStore ==
    \/ \E name \in {NameQ1, NameB} : CreateCampaign(name)
    \/ \E sel_id \in Ids(campaigns) : CreateCadence(sel_id, FiveStep)
    \/ \E cad \in Ids(cadences) : AddCadenceActivity(cad, "email", Intro)
    \/ \E cad \in Ids(cadences), df \in DfsStore : IngestV1(cad, df)
    \/ \E cad \in Ids(cadences), df \in DfsStore : IngestV2(cad, df)
    \/ \E cid \in Ids(contacts) : ConvertContact(cid, "New", 0)
    \/ CreateAccount(Acme, Tech, <<>>)
    \/ \E a \in Ids(accounts) : AddSignal(a, Hire, <<>>)

SpecStore == Init /\ [][NextStore]_vars

(***************************************************************************)
(* SpecCascade: the handlers that write the rows a Campaign owns, under    *)
(* two campaigns, and the cascading delete of a Campaign.                  *)
(***************************************************************************)
DfsCascade == DfsOf({"email"}, [email : {EmA}])

NextCascade ==
    \/ \E name \in {NameQ1, NameB} : CreateCampaign(name)
    \/ \E sel_id \in Ids(campaigns) : CreateCadence(sel_id, FiveStep)
    \/ \E cad \in Ids(cadences) : AddCadenceActivity(cad, "email", Intro)
    \/ \E cad \in Ids(cadences), df \in DfsCascade : IngestV2(cad, df)
    \/ \E cid \in Ids(contacts) : ConvertContact(cid, "New", 0)
    \/ \E c \in Ids(campaigns) : SaveDocument(c, Deck, Deck, TRUE)
    \/ \E c \in Ids(campaigns) : DeleteCampaign(c)

SpecCascade == Init /\ [][NextCascade]_vars

(***************************************************************************)
(* SpecAccounts: one campaign and its cadence, the "Add Account" form with *)
(* repeated and padded names, and ingestion of CSV files whose rows name   *)
(* stored, new, padded, blank and empty (NaN) accounts.                    *)
(***************************************************************************)
AccountNames == {<<>>, Acme, AcmePadded, NameB}

RowsAccounts ==
    {[email |-> EmA, account_name |-> Acme, account_industry |-> Hire],
     [email |-> EmB, account_name |-> AcmePadded, account_industry |-> NaN],
     [email |-> EmA, account_name |-> NameB, account_industry |-> NaN],
     [email |-> EmB, account_name |-> Blank, account_industry |-> Tech],
     [email |-> EmA, account_name |-> NaN, account_industry |-> NaN]}

DfsAccounts == DfsOf({"email", "account_name", "account_industry"}, RowsAccounts)

NextAccounts ==
    \/ CreateCampaign(NameQ1)
    \/ \E sel_id \in Ids(campaigns) : CreateCadence(sel_id, FiveStep)
    \/ \E name \in AccountNames, industry \in {<<>>, Tech} :
         CreateAccount(name, industry, <<>>)
    \/ \E cad \in Ids(cadences), df \in DfsAccounts : IngestV1(cad, df)

SpecAccounts == Init /\ [][NextAccounts]_vars

(***************************************************************************)
(* SpecMetrics: two campaigns with their cadences; ingestion of CSV files  *)
(* whose rows share an account, name different accounts or have no account *)
(* column; stand-alone accounts and signals.                               *)
(***************************************************************************)
RowsMetrics ==
    {[email |-> EmA, account_name |-> Acme],
     [email |-> EmB, account_name |-> Acme],
     [email |-> EmB, account_name |-> NameB]}

DfsMetrics ==
    DfsOf({"email", "account_name"}, RowsMetrics)
      \cup DfsOf({"email"}, [email : {EmA, EmB}])

NextMetrics ==
    \/ \E name \in {NameQ1, NameB} : CreateCampaign(name)
    \/ \E sel_id \in Ids(campaigns) : CreateCadence(sel_id, FiveStep)
    \/ \E cad \in Ids(cadences), df \in DfsMetrics : IngestV1(cad, df)
    \/ CreateAccount(NameB, <<>>, <<>>)
    \/ \E a \in Ids(accounts) : AddSignal(a, Hire, <<>>)

SpecMetrics == Init /\ [][NextMetrics]_vars

(***************************************************************************)
(* SpecTitles: one campaign and its cadence; ingestion of CSV files with   *)
(* and without a title column, whose titles hit each rule of the           *)
(* department classification.                                              *)
(***************************************************************************)
Titles == {HeadOfSEO, VPMarketing, Marketing, Director, Manager, HeadUpper, SalesRep}

DfsTitles ==
    DfsOf({"email", "title"}, [email : {EmA, EmB}, title : Titles])
      \cup DfsOf({"email"}, [email : {EmA, EmB}])

NextTitles ==
    \/ CreateCampaign(NameQ1)
    \/ \E sel_id \in Ids(campaigns) : CreateCadence(sel_id, FiveStep)
    \/ \E cad \in Ids(cadences), df \in DfsTitles : IngestV1(cad, df)

SpecTitles == Init /\ [][NextTitles]_vars

(***************************************************************************)
(* SpecConvert: one campaign with its cadence and contacts, its deletion,  *)
(* and conversions with identifiers of stored and of missing Contacts and  *)
(* with amounts on both sides of the input's minimum.                      *)
(***************************************************************************)
DfsConvert == DfsOf({"email"}, [email : {EmA, EmB}])

ConversionInputs == {<<"New", 0>>, <<"Qualified", 500>>, <<"Won", 0 - 500>>}

NextConvert ==
    \/ CreateCampaign(NameQ1)
    \/ \E sel_id \in Ids(campaigns) : CreateCadence(sel_id, FiveStep)
    \/ \E cad \in Ids(cadences), df \in DfsConvert : IngestV1(cad, df)
    \/ \E cid \in 1..MaxId, sa \in ConversionInputs : ConvertContact(cid, sa[1], sa[2])
    \/ \E c \in Ids(campaigns) : DeleteCampaign(c)

SpecConvert == Init /\ [][NextConvert]_vars

(***************************************************************************)
(* SpecBatch: one campaign, its cadence and templates; ingestions that run *)
(* to their commit and ingestions in which a row raises.                   *)
(***************************************************************************)
RowsBatch ==
    {[email |-> EmA, account_name |-> Acme], [email |-> EmB, account_name |-> NameB]}

DfsBatch == DfsOf({"email", "account_name"}, RowsBatch)

NextBatch ==
    \/ CreateCampaign(NameQ1)
    \/ \E sel_id \in Ids(campaigns) : CreateCadence(sel_id, FiveStep)
    \/ \E cad \in Ids(cadences) : AddCadenceActivity(cad, "email", Intro)
    \/ \E cad \in Ids(cadences), df \in DfsBatch : IngestV1(cad, df)
    \/ \E cad \in Ids(cadences), df \in DfsBatch : IngestV2(cad, df)
    \/ \E cad \in Ids(cadences), df \in DfsBatch, fail_at \in 1..MaxRows :
         IngestV1Aborted(cad, df, fail_at)
    \/ \E cad \in Ids(cadences), df \in DfsBatch, fail_at \in 1..MaxRows :
         IngestV2Aborted(cad, df, fail_at)

SpecBatch == Init /\ [][NextBatch]_vars

(***************************************************************************)
(* SpecAction: the classifier applied to one row of counters, drawn from   *)
(* values on both sides of each threshold; engaged and exhausted leads are *)
(* leads of the campaign.                                                  *)
(***************************************************************************)
AccountCounts == {0, 5, 9, 10, 11}
LeadCounts == {0, 1, 29, 30, 40, 100}
EngagedCounts == {0, 1, 29, 30, 40}
ExhaustedCounts == {0, 1, 21, 28, 29, 70, 71}
OpportunityCounts == {0, 1, 2, 3}

CounterRows ==
    {r \in [accounts : AccountCounts, leads : LeadCounts, engaged : EngagedCounts,
            exhausted : ExhaustedCounts, opportunities : OpportunityCounts,
            label : {NotComputed}] :
       r.engaged <= r.leads /\ r.exhausted <= r.leads}

InitAction ==
    /\ campaigns = {} /\ documents = {} /\ cadences = {}
    /\ cadence_activities = {} /\ accounts = {} /\ account_signals = {}
    /\ contacts = {} /\ activities = {} /\ opportunities = {}
    /\ last = NoOp
    /\ scen = ScenOff
    /\ nba \in CounterRows
    /\ campaign_options = NotCached
    /\ leads_run = NoRun
    /\ creating = {}

NextAction == NextBestAction

SpecAction == InitAction /\ [][NextAction]_vars

(***************************************************************************)
(* SpecCache: one running app; campaign creations with fresh, repeated,    *)
(* padded and empty names, the pages' reads of the campaign list, and the  *)
(* other handlers of the Campaigns and Cadences pages.                     *)
(***************************************************************************)
NextCache ==
    \/ \E name \in CampaignNames : CreateCampaign(name)
    \/ ListCampaignOptions
    \/ \E sel_id \in Ids(campaigns) : CreateCadence(sel_id, FiveStep)
    \/ \E c \in Ids(campaigns), w \in BOOLEAN : SaveDocument(c, Deck, Deck, w)

SpecCache == Init /\ [][NextCache]_vars

(***************************************************************************)
(* SpecOnce: two campaigns with their cadences, templates added before and *)
(* after the ingestions, and v2 ingestions of CSV files that bring each    *)
(* email once: no email twice in a file, none that the cadence holds.      *)
(***************************************************************************)
DfsOnce == DfsOf({"email"}, [email : {EmA, EmB}])

IngestsOnce(cadence_id, df) ==
    /\ \A i, j \in 1..Len(df.rows) :
         i # j => RowEmail(df, df.rows[i]) # RowEmail(df, df.rows[j])
    /\ \A i \in 1..Len(df.rows) :
         FindExisting(Session, cadence_id, RowEmail(df, df.rows[i])) = {}

NextOnce ==
    \/ \E name \in {NameQ1, NameB} : CreateCampaign(name)
    \/ \E sel_id \in Ids(campaigns) : CreateCadence(sel_id, FiveStep)
    \/ \E cad \in Ids(cadences), ty \in {"email", "call"} :
         AddCadenceActivity(cad, ty, Intro)
    \/ \E cad \in Ids(cadences), df \in DfsOnce :
         IngestsOnce(cad, df) /\ IngestV2(cad, df)

SpecOnce == Init /\ [][NextOnce]_vars

(***************************************************************************)
(* SpecRace: one cadence; the template form of one browser session and a   *)
(* run of the Leads page of another, whose two sessions the template form  *)
(* may fall between.  Every email is ingested once.                        *)
(***************************************************************************)
NextRace ==
    \/ CreateCampaign(NameQ1)
    \/ \E sel_id \in Ids(campaigns) : CreateCadence(sel_id, FiveStep)
    \/ \E cad \in Ids(cadences), ty \in {"email", "call"} :
         AddCadenceActivity(cad, ty, Intro)
    \/ \E cad \in Ids(cadences) : ReadCadenceActivities(cad)
    \/ \E df \in DfsOnce : IngestsOnce(leads_run.cadence_id, df) /\ IngestLeads(df)

SpecRace == Init /\ [][NextRace]_vars

(***************************************************************************)
(* SpecCreate: two browser sessions submitting campaign names, each        *)
(* submission in its two steps, with the pages' reads of the campaign list *)
(* and the cadence form.                                                   *)
(***************************************************************************)
NextCreate ==
    \/ \E session \in Sessions, name \in {NameQ1, NameB} :
         CheckCampaignName(session, name)
    \/ \E session \in Sessions : CommitCampaign(session)
    \/ ListCampaignOptions
    \/ \E sel_id \in Ids(campaigns) : CreateCadence(sel_id, FiveStep)

SpecCreate == Init /\ [][NextCreate]_vars

(***************************************************************************)
(* Notions of the specification used by the properties below.              *)
(***************************************************************************)
IsBlankCell(df, row, col) ==
    \/ col \notin df.cols
    \/ row[col] = NaN
    \/ Strip(row[col]) = <<>>

RowIndexes(df) == 1..Len(df.rows)

NonBlankEmailRows(df) == {i \in RowIndexes(df) : ~IsBlankCell(df, df.rows[i], "email")}

TextEmails(df) == {Strip(df.rows[i]["email"]) : i \in NonBlankEmailRows(df)}

EmailsOf(cs, cadence_id) == {c.email : c \in {x \in cs : x.cadence_id = cadence_id}}

InCadence(cs, cadence_id) == {c \in cs : c.cadence_id = cadence_id}

TextOnly(df) == \A i \in RowIndexes(df) : df.rows[i]["email"] # NaN

(***************************************************************************)
(* C1: the store holds at most one Contact per (email, cadence) pair, and  *)
(* an ingestion of any batch (repeated emails included) into a cadence     *)
(* leaves exactly one Contact per email of the cadence: existing Contacts  *)
(* keep their rows, each new email gets one row, and the Contacts of the   *)
(* other cadences, which may hold the same emails, are untouched.          *)
(***************************************************************************)
UniqueEmailPerCadence(cs) ==
    \A c1, c2 \in cs :
       (c1.id = c2.id \/ (c1.cadence_id = c2.cadence_id /\ c1.email = c2.email))
          => c1 = c2

C1_OneContactPerEmailAndCadence ==
    /\ UniqueEmailPerCadence(contacts)
    /\ \A cad \in Ids(cadences), df \in {d \in DfsUnique : TextOnly(d)} :
         LET out == IngestResult(cad, df, TemplatesOf(cad))
             emails == EmailsOf(contacts, cad) \cup TextEmails(df)
         IN /\ UniqueEmailPerCadence(out.contacts)
            /\ EmailsOf(out.contacts, cad) = emails
            /\ Cardinality(InCadence(out.contacts, cad)) = Cardinality(emails)
            /\ \A c \in InCadence(contacts, cad) :
                 \E d \in out.contacts : d.id = c.id /\ d.email = c.email
            /\ \A other \in Ids(cadences) \ {cad} :
                 InCadence(out.contacts, other) = InCadence(contacts, other)

C1_Witness ==
    /\ last.op \in {"ingest_v1", "ingest_v2"}
    /\ \E c1, c2 \in contacts : c1.email = c2.email /\ c1.cadence_id # c2.cadence_id

(***************************************************************************)
(* C2: a row whose email is blank (column missing, cell empty, or          *)
(* whitespace only) is skipped: a batch of blank rows changes no Contact,  *)
(* Account or Activity, and the reported total is the number of rows whose *)
(* email is not blank.                                                     *)
(***************************************************************************)
C2_BlankEmailRowsAreSkipped ==
    \A cad \in Ids(cadences), df \in DfsUpsert :
       LET out == IngestResult(cad, df, TemplatesOf(cad))
       IN /\ out.ingested = Cardinality(NonBlankEmailRows(df))
          /\ NonBlankEmailRows(df) = {} =>
               /\ out.contacts = contacts
               /\ out.accounts = accounts
               /\ out.activities = activities

(***************************************************************************)
(* C3: re-ingesting a row for an existing (email, cadence) Contact         *)
(* overwrites first_name, last_name and title only where the incoming      *)
(* value is not blank and keeps the stored non-empty value otherwise; the  *)
(* account is reassigned only when the row resolved an account.            *)
(***************************************************************************)
NameFields == {"first_name", "last_name", "title"}

C3_ReingestKeepsValuesOnBlank ==
    \A c \in contacts, df \in DfsUpsert :
       \A i \in RowIndexes(df) :
          LET row == df.rows[i]
              res == ResolveAccount(Session, df, row)
              new == UpdateExisting(c, df, row, res.account_id)
          IN RowEmail(df, row) = c.email =>
               /\ \A f \in NameFields :
                    IF IsBlankCell(df, row, f)
                    THEN Truthy(c[f]) => new[f] = c[f]
                    ELSE new[f] = row[f]
               /\ new.account_id =
                    IF res.account_id # NoId THEN res.account_id ELSE c.account_id

(***************************************************************************)
(* C4: adding a template to a Cadence that has N Contacts adds exactly one *)
(* template row, of that Cadence, and exactly N Activities, one on each    *)
(* Contact of the Cadence, each with the template's type and content; no   *)
(* Activity is added on a Contact of another Cadence and no stored         *)
(* template or Activity changes.                                           *)
(***************************************************************************)
UniqueIds(table) == Cardinality(Ids(table)) = Cardinality(table)

C4_TemplateFansOutToItsCadence ==
    /\ UniqueIds(cadence_activities) /\ UniqueIds(activities)
    /\ \A cad \in Ids(cadences), ty \in ActTypes, content \in {Intro, Intro \o Blank} :
         LET out == AddCadenceActivityEffect(cad, ty, content)
             newT == out.cadence_activities \ cadence_activities
             newA == out.activities \ activities
             leads == InCadence(contacts, cad)
         IN /\ cadence_activities \subseteq out.cadence_activities
            /\ activities \subseteq out.activities
            /\ UniqueIds(out.cadence_activities) /\ UniqueIds(out.activities)
            /\ Cardinality(newT) = 1
            /\ Cardinality(newA) = Cardinality(leads)
            /\ {a.contact_id : a \in newA} = Ids(leads)
            /\ \A t \in newT :
                 /\ t.cadence_id = cad /\ t.type = ty /\ t.content = Strip(content)
                 /\ \A a \in newA : a.type = t.type /\ a.content = t.content

C4_Witness ==
    /\ last.op = "add_cadence_activity"
    /\ \E t \in cadence_activities :
         /\ \E c \in InCadence(contacts, t.cadence_id) :
              \E a \in activities : a.contact_id = c.id
         /\ \E c \in contacts :
              /\ c.cadence_id # t.cadence_id
              /\ ~(\E a \in activities : a.contact_id = c.id)

(***************************************************************************)
(* C5: converting an existing Contact with a stage and an amount sets that *)
(* Contact's status to "converted" and adds exactly one Opportunity,       *)
(* linked to the Contact with that stage and amount; the other Contacts    *)
(* and the stored Opportunities are unchanged.                             *)
(***************************************************************************)
Amounts == {0, 500}

C5_ConvertAddsOneOpportunity ==
    /\ UniqueIds(opportunities) /\ UniqueIds(contacts)
    /\ \A cid \in Ids(contacts), stage \in Stages, amount \in Amounts :
         LET out == ConvertEffect(cid, stage, amount)
             newO == out.opportunities \ opportunities
             c == Row(contacts, cid)
         IN /\ opportunities \subseteq out.opportunities
            /\ UniqueIds(out.opportunities)
            /\ Cardinality(newO) = 1
            /\ \A o \in newO :
                 o.contact_id = cid /\ o.stage = stage /\ o.amount = amount
            /\ out.contacts = (contacts \ {c}) \cup {[c EXCEPT !.status = "converted"]}

C5_Witness ==
    /\ last.op = "convert"
    /\ \E c \in contacts :
         /\ c.status = "converted"
         /\ Cardinality({o \in opportunities : o.contact_id = c.id}) = 1
    /\ \E c \in contacts :
         /\ c.status = "new"
         /\ ~(\E o \in opportunities : o.contact_id = c.id)

(***************************************************************************)
(* C6: the metrics of a Campaign without a Cadence report zero accounts,   *)
(* leads, engaged leads, exhausted leads, signals and opportunities, and   *)
(* the empty marker for the cadence, whatever rows the other campaigns     *)
(* hold.                                                                   *)
(***************************************************************************)
NoCadence(campaign_id) == ~(\E cad \in cadences : cad.campaign_id = campaign_id)

C6_MetricsWithoutCadenceAreZero ==
    \A c \in Ids(campaigns) :
       NoCadence(c) =>
         LET m == Metrics(c)
         IN /\ m.accounts = 0
            /\ m.leads = 0
            /\ m.engaged_leads = 0
            /\ m.exhausted_leads = 0
            /\ m.signals = 0
            /\ m.opportunities = 0
            /\ m.has_cadence = ""

C6_Witness ==
    /\ \E c \in Ids(campaigns) : NoCadence(c)
    /\ \E c \in contacts : c.account_id # NoId
    /\ accounts # {}
    /\ account_signals # {}
    /\ activities # {}
    /\ opportunities # {}

(***************************************************************************)
(* C7: after the end-to-end scenario (create the Campaign, create its      *)
(* Cadence, ingest a@x.com "Head of SEO" and b@x.com "Sales Rep", add the  *)
(* template (email, "intro"), convert a@x.com with stage Qualified and     *)
(* amount 500) exactly one Contact classifies as SEO and one is            *)
(* unclassified, both Contacts have exactly one Activity, and the metrics  *)
(* report 2 leads, 2 engaged leads and 1 opportunity.                      *)
(***************************************************************************)
ActivitiesOn(contact_id) == {a \in activities : a.contact_id = contact_id}

C7_EndToEndScenario ==
    scen = 5 =>
      /\ Cardinality(campaigns) = 1
      /\ \A c \in Ids(campaigns) :
           LET m == Metrics(c)
           IN m.leads = 2 /\ m.engaged_leads = 2 /\ m.opportunities = 1 /\ m.seo = 1
      /\ Cardinality(contacts) = 2
      /\ Cardinality({c \in contacts : _classify_department(c.title) = "Mrktg: SEO"}) = 1
      /\ Cardinality({c \in contacts : _classify_department(c.title) = "None"}) = 1
      /\ \A c \in contacts : Cardinality(ActivitiesOn(c.id)) = 1
      /\ \A a \in activities : a.type = "email" /\ a.content = Intro
      /\ \A o \in opportunities :
           /\ Row(contacts, o.contact_id).email = EmA
           /\ o.stage = "Qualified" /\ o.amount = 500

C7_Witness == scen = 5

(***************************************************************************)
(* C8: no two stored Campaigns have the same name, and submitting a        *)
(* non-empty name that, trimmed, is the name of a stored Campaign (the     *)
(* stored name itself, or the stored name with leading or trailing         *)
(* whitespace) fails with a conflict and leaves the store unchanged.       *)
(***************************************************************************)
UniqueCampaignNames(cs) ==
    \A c1, c2 \in cs : (c1.id = c2.id \/ c1.name = c2.name) => c1 = c2

Conflicts == {"exists", "IntegrityError"}

DuplicateNameIsRefused ==
    /\ UniqueCampaignNames(campaigns)
    /\ \A name \in CampaignNames :
         (Truthy(name) /\ \E c \in campaigns : c.name = Strip(name)) =>
            /\ CreateCampaignOutcome(name) \in Conflicts
            /\ CreateCampaignEffect(name) = campaigns

ConflictKeepsStore ==
    (last'.op = "create_campaign" /\ last'.err \in Conflicts) => store' = store

C8_DuplicateCampaignNameConflicts ==
    []DuplicateNameIsRefused /\ [][ConflictKeepsStore]_vars

C8_Witness ==
    /\ last.op = "create_campaign"
    /\ last.err = "IntegrityError"
    /\ Cardinality(campaigns) = 2

(***************************************************************************)
(* C9: every stored row references stored rows, and deleting a Campaign    *)
(* removes its Cadence and Documents, the Cadence's templates and          *)
(* Contacts, and those Contacts' Activities and Opportunities: afterwards  *)
(* no row references a deleted Campaign, Cadence or Contact, and the rows  *)
(* of the other Campaigns are unchanged.                                   *)
(***************************************************************************)
Intact(st) ==
    /\ \A d \in st.documents : d.campaign_id \in Ids(st.campaigns)
    /\ \A cad \in st.cadences : cad.campaign_id \in Ids(st.campaigns)
    /\ \A t \in st.cadence_activities : t.cadence_id \in Ids(st.cadences)
    /\ \A c \in st.contacts : c.cadence_id \in Ids(st.cadences)
    /\ \A a \in st.activities : a.contact_id \in Ids(st.contacts)
    /\ \A o \in st.opportunities : o.contact_id \in Ids(st.contacts)

Stored ==
    [campaigns |-> campaigns, documents |-> documents, cadences |-> cadences,
     cadence_activities |-> cadence_activities, contacts |-> contacts,
     activities |-> activities, opportunities |-> opportunities]

CampaignOfCadence(cadence_id) == Row(cadences, cadence_id).campaign_id

CampaignOfContact(contact_id) == CampaignOfCadence(Row(contacts, contact_id).cadence_id)

OwnedBy(campaign_ids) ==
    [campaigns |-> {c \in campaigns : c.id \in campaign_ids},
     documents |-> {d \in documents : d.campaign_id \in campaign_ids},
     cadences |-> {cad \in cadences : cad.campaign_id \in campaign_ids},
     cadence_activities |->
       {t \in cadence_activities : CampaignOfCadence(t.cadence_id) \in campaign_ids},
     contacts |-> {c \in contacts : CampaignOfCadence(c.cadence_id) \in campaign_ids},
     activities |-> {a \in activities : CampaignOfContact(a.contact_id) \in campaign_ids},
     opportunities |->
       {o \in opportunities : CampaignOfContact(o.contact_id) \in campaign_ids}]

C9_DeleteCampaignCascades ==
    /\ Intact(Stored)
    /\ \A c \in Ids(campaigns) :
         LET out == DeleteCampaignEffect(c)
         IN /\ Intact(out)
            /\ out = OwnedBy(Ids(campaigns) \ {c})

C9_Witness ==
    /\ last.op = "delete_campaign"
    /\ \E o \in opportunities, a \in activities, t \in cadence_activities, d \in documents :
         /\ o.id > 1 /\ a.id > 1
         /\ CampaignOfContact(o.contact_id) = CampaignOfContact(a.contact_id)
         /\ CampaignOfCadence(t.cadence_id) = d.campaign_id
         /\ d.campaign_id = CampaignOfContact(a.contact_id)

(***************************************************************************)
(* C10: each Campaign has at most one Cadence, and a cadence-creation      *)
(* submission for a Campaign that has a Cadence adds no Cadence and leaves *)
(* the stored one as it is.                                                *)
(***************************************************************************)
CadencesOfCampaign(cads, campaign_id) == {cad \in cads : cad.campaign_id = campaign_id}

C10_AtMostOneCadencePerCampaign ==
    /\ \A c \in Ids(campaigns) : Cardinality(CadencesOfCampaign(cadences, c)) <= 1
    /\ \A c \in Ids(campaigns), name \in {<<>>, FiveStep, NameB} :
         LET out == CreateCadenceEffect(c, name)
         IN /\ Cardinality(CadencesOfCampaign(out, c)) = 1
            /\ CadencesOfCampaign(cadences, c) # {} => out = cadences

C10_Witness ==
    /\ last.op = "create_cadence"
    /\ last.err = "ignored"
    /\ Cardinality(cadences) = 2

(***************************************************************************)
(* C11: in the ingestion that applies the cadence's templates, every row   *)
(* that is not skipped adds exactly K Activities to the Contact it         *)
(* resolved, K being the number of templates of the Cadence, each with one *)
(* template's type and content; it does so for new and for stored Contacts *)
(* alike, so a re-ingested Contact accumulates K further Activities per    *)
(* row, and the stored Activities are kept.                                *)
(***************************************************************************)
RowsOfEmail(df, email) ==
    {i \in NonBlankEmailRows(df) : Strip(df.rows[i]["email"]) = email}

ActivitiesOf(acts, cs, cadence_id, email) ==
    {a \in acts : \E c \in cs : /\ c.id = a.contact_id
                               /\ c.cadence_id = cadence_id /\ c.email = email}

Copies(acts, t) == {a \in acts : a.type = t.type /\ a.content = t.content}

SameAs(ts, t) == {u \in ts : u.type = t.type /\ u.content = t.content}

C11_EveryRowAppliesEveryTemplate ==
    \A cad \in Ids(cadences), df \in DfsUpsert :
       LET ts == {t \in cadence_activities : t.cadence_id = cad}
           out == IngestResult(cad, df, TemplatesOf(cad))
       IN /\ activities \subseteq out.activities
          /\ UniqueIds(out.activities)
          /\ \A email \in TextEmails(df) :
               LET before == ActivitiesOf(activities, contacts, cad, email)
                   after == ActivitiesOf(out.activities, out.contacts, cad, email)
                   rows == Cardinality(RowsOfEmail(df, email))
               IN /\ before \subseteq after
                  /\ Cardinality(after \ before) = Cardinality(ts) * rows
                  /\ \A t \in ts :
                       Cardinality(Copies(after \ before, t))
                         = Cardinality(SameAs(ts, t)) * rows

C11_Witness ==
    /\ last.op = "ingest_v2"
    /\ \E c \in contacts :
         /\ Cardinality(TemplatesOf(c.cadence_id)) = 2
         /\ Cardinality(ActivitiesOn(c.id)) = 2
         /\ \A t \in TemplatesOf(c.cadence_id) :
              Cardinality(Copies(ActivitiesOn(c.id), t)) = 1

(***************************************************************************)
(* C12: no two stored Accounts have the same name.  An ingested row whose  *)
(* account_name is not blank links its Contact to the Account of that      *)
(* (trimmed) name, which is created only when no Account has the name; a   *)
(* batch whose rows repeat a new name creates one Account; the "Add        *)
(* Account" form keeps the names unique; stored Accounts keep their        *)
(* industry and website.                                                   *)
(***************************************************************************)
UniqueAccountNames(as) ==
    \A a1, a2 \in as : (a1.id = a2.id \/ a1.name = a2.name) => a1 = a2

LastRowOf(df, email) ==
    CHOOSE i \in RowsOfEmail(df, email) : \A j \in RowsOfEmail(df, email) : j <= i

NamedAccounts(df) ==
    {Strip(df.rows[i]["account_name"]) :
       i \in {j \in NonBlankEmailRows(df) : ~IsBlankCell(df, df.rows[j], "account_name")}}

C12_AccountsAreLinkedByUniqueName ==
    /\ UniqueAccountNames(accounts)
    /\ \A name \in AccountNames, industry \in {<<>>, Tech} :
         /\ accounts \subseteq CreateAccountEffect(name, industry, <<>>)
         /\ UniqueAccountNames(CreateAccountEffect(name, industry, <<>>))
    /\ \A cad \in Ids(cadences), df \in DfsAccounts :
         LET out == IngestResult(cad, df, TemplatesOf(cad))
         IN /\ accounts \subseteq out.accounts
            /\ UniqueAccountNames(out.accounts)
            /\ \A name \in NamedAccounts(df) : \E a \in out.accounts : a.name = name
            /\ \A email \in TextEmails(df) :
                 LET row == df.rows[LastRowOf(df, email)]
                 IN ~IsBlankCell(df, row, "account_name") =>
                      \E c \in InCadence(out.contacts, cad), a \in out.accounts :
                         /\ c.email = email
                         /\ c.account_id = a.id
                         /\ a.name = Strip(row["account_name"])

C12_Witness ==
    /\ last.op = "ingest_v1"
    /\ Cardinality(accounts) = 2
    /\ \E c1, c2 \in contacts :
         c1.id # c2.id /\ c1.account_id = c2.account_id /\ c1.account_id # NoId
    /\ \E a \in accounts : a.name = Acme /\ a.industry = Tech

(***************************************************************************)
(* C13: the account count of a Campaign is the number of distinct Accounts *)
(* referenced by the Contacts of its Cadence: a Contact without an account *)
(* adds nothing and an Account shared by several Contacts counts once.     *)
(***************************************************************************)
ContactsOfCampaign(campaign_id) ==
    {x \in contacts :
       \E cad \in cadences : cad.campaign_id = campaign_id /\ cad.id = x.cadence_id}

AccountsOfCampaign(campaign_id) ==
    {x.account_id : x \in ContactsOfCampaign(campaign_id)} \ {NoId}

C13_AccountCountIsDistinctAccounts ==
    \A c \in Ids(campaigns) :
       Metrics(c).accounts = Cardinality(AccountsOfCampaign(c))

C13_Witness ==
    \E c \in Ids(campaigns) :
       /\ Cardinality(ContactsOfCampaign(c)) = 2
       /\ Cardinality(AccountsOfCampaign(c)) = 1
       /\ \A x \in ContactsOfCampaign(c) : x.account_id # NoId
       /\ Cardinality(accounts) = 2

(***************************************************************************)
(* C14: the department of a Contact is decided by case-insensitive         *)
(* substring tests on its title, the first matching rule winning: "seo",   *)
(* then any of "vp", "head", "director", "manager", then "marketing",      *)
(* otherwise (or without a title) unclassified.  The SEO and Management    *)
(* counts are the numbers of Contacts so classified and the reported       *)
(* labels are the distinct labels matched.  The labels of the code are     *)
(* "Mrktg: SEO", "Mrktg: Management" and "Mrktg: General".                 *)
(***************************************************************************)
Mentions(title, word) ==
    \E i \in 1..(Len(title) - Len(word) + 1) :
       \A j \in 1..Len(word) : LowerChar(title[i + j - 1]) = word[j]

Seo == <<"s", "e", "o">>

ManagementWords ==
    {<<"v", "p">>, <<"h", "e", "a", "d">>, <<"d", "i", "r", "e", "c", "t", "o", "r">>,
     <<"m", "a", "n", "a", "g", "e", "r">>}

DepartmentOf(title, labels) ==
    IF title = None \/ title = <<>> THEN "None"
    ELSE IF Mentions(title, Seo) THEN labels.seo
    ELSE IF \E w \in ManagementWords : Mentions(title, w) THEN labels.management
    ELSE IF Mentions(title, Lower(Marketing)) THEN labels.general
    ELSE "None"

Classifies(labels) ==
    /\ \A c \in contacts : _classify_department(c.title) = DepartmentOf(c.title, labels)
    /\ \A p \in Ids(campaigns) :
         LET m == Metrics(p)
             cs == ContactsOfCampaign(p)
         IN /\ m.seo =
                 Cardinality({c \in cs : DepartmentOf(c.title, labels) = labels.seo})
            /\ m.management =
                 Cardinality({c \in cs : DepartmentOf(c.title, labels) = labels.management})
            /\ {m.dept_labels[i] : i \in DOMAIN m.dept_labels}
                 = {DepartmentOf(c.title, labels) : c \in cs} \ {"None"}
            /\ Len(m.dept_labels) = Cardinality({m.dept_labels[i] : i \in DOMAIN m.dept_labels})

C14_DepartmentClassification ==
    Classifies([seo |-> "Mrktg: SEO", management |-> "Mrktg: Management",
                general |-> "Mrktg: General"])

C14_Witness ==
    /\ last.op = "ingest_v1"
    /\ \E c1, c2 \in contacts :
         /\ c1.title = HeadOfSEO /\ _classify_department(c1.title) = "Mrktg: SEO"
         /\ c2.title = VPMarketing /\ _classify_department(c2.title) = "Mrktg: Management"

C14_AsClaimed ==
    Classifies([seo |-> "Marketing: SEO", management |-> "Marketing: Management",
                general |-> "Marketing: General"])

(***************************************************************************)
(* C15: the engaged-lead count of a Campaign is the number of Contacts of  *)
(* its Cadence that have at least one Activity, whatever the number of     *)
(* Activities of each; Activities of Contacts of other Cadences do not     *)
(* count.                                                                  *)
(***************************************************************************)
EngagedOfCampaign(campaign_id) ==
    {x \in ContactsOfCampaign(campaign_id) : \E a \in activities : a.contact_id = x.id}

C15_EngagedCountIsContactsWithActivity ==
    \A c \in Ids(campaigns) :
       Metrics(c).engaged_leads = Cardinality(EngagedOfCampaign(c))

C15_Witness ==
    \E c \in Ids(campaigns), x \in contacts :
       /\ x \in ContactsOfCampaign(c)
       /\ Cardinality(ActivitiesOn(x.id)) = 2
       /\ Metrics(c).engaged_leads = 1
       /\ \E y \in contacts : y \notin ContactsOfCampaign(c)

(***************************************************************************)
(* C16: the signal count of a Campaign is the number of AccountSignals of  *)
(* the Accounts referenced by the Contacts of its Cadence: each signal     *)
(* counts once, also when several Contacts reference its Account, and the  *)
(* signals of Accounts that no Contact of the Campaign references do not   *)
(* count.                                                                  *)
(***************************************************************************)
SignalsOfCampaign(campaign_id) ==
    {sg \in account_signals : sg.account_id \in AccountsOfCampaign(campaign_id)}

C16_SignalCountIsSignalsOfReferencedAccounts ==
    \A c \in Ids(campaigns) :
       Metrics(c).signals = Cardinality(SignalsOfCampaign(c))

C16_Witness ==
    \E c \in Ids(campaigns) :
       /\ Cardinality(ContactsOfCampaign(c)) = 2
       /\ Cardinality(AccountsOfCampaign(c)) = 1
       /\ Cardinality(SignalsOfCampaign(c)) = 1
       /\ Cardinality(account_signals) = 2

(***************************************************************************)
(* C17: converting an identifier that names no stored Contact fails with   *)
(* an error raised by the failed lookup, adds no Opportunity and changes   *)
(* no Contact.                                                             *)
(***************************************************************************)
MissingIds == (1..MaxId) \ Ids(contacts)

C17_ConvertMissingContactFails ==
    \A cid \in MissingIds, stage \in Stages, amount \in Amounts :
       /\ ConvertOutcome(cid, amount) = "AttributeError"
       /\ ConvertResult(cid, stage, amount).opportunities = opportunities
       /\ ConvertResult(cid, stage, amount).contacts = contacts

C17_Witness ==
    /\ last.op = "convert"
    /\ last.err = "AttributeError"
    /\ contacts # {}
    /\ opportunities # {}

(***************************************************************************)
(* C18: a conversion with a negative amount is refused as invalid and      *)
(* stores nothing, and every stored Opportunity has a non-negative amount. *)
(***************************************************************************)
NegativeAmounts == {0 - 500, 0 - 1}

Tables(st) == <<st.accounts, st.contacts, st.activities>>

AbortKeepsStore ==
    (last'.op \in {"ingest_v1", "ingest_v2"} /\ last'.err \in {"error", "rollback"})
       => store' = store

BatchIsAllOrNothing ==
    \A cad \in Ids(cadences), df \in DfsBatch :
     \A cad_acts \in {{}, TemplatesOf(cad)} :
       /\ \A fail_at \in 1..Len(df.rows) :
            Tables(IngestCommitted(cad, df, cad_acts, fail_at))
              = <<accounts, contacts, activities>>
       /\ LET out == IngestCommitted(cad, df, cad_acts, 0)
          IN /\ out.ingested = Len(df.rows)
             /\ \A i \in RowIndexes(df) :
                  \E c \in InCadence(out.contacts, cad), a \in out.accounts :
                     /\ c.email = df.rows[i]["email"]
                     /\ c.account_id = a.id
                     /\ a.name = df.rows[i]["account_name"]
                     /\ Cardinality({x \in out.activities : x.contact_id = c.id})
                          >= Cardinality({x \in activities : x.contact_id = c.id})
                               + Cardinality(cad_acts)

C19_IngestionIsAllOrNothing ==
    []BatchIsAllOrNothing /\ [][AbortKeepsStore]_vars

C19_Witness ==
    /\ last.op \in {"ingest_v1", "ingest_v2"}
    /\ last.err = "rollback"
    /\ cadences # {}
    /\ contacts = {}
    /\ accounts = {}

(***************************************************************************)
(* C20: submitting a Campaign creation with an empty name is refused as a  *)
(* validation failure with the store unchanged, and after any sequence of  *)
(* creation submissions, names made only of whitespace included, every     *)
(* stored Campaign has a non-empty name.                                   *)
(***************************************************************************)
EmptyNameIsRefused ==
    /\ CreateCampaignOutcome(<<>>) = "validation"
    /\ CreateCampaignEffect(<<>>) = campaigns

C20_StoredCampaignNamesAreNonEmpty ==
    /\ EmptyNameIsRefused
    /\ \A c \in campaigns : c.name # <<>>

(***************************************************************************)
(* C21: when storing an uploaded Document's file fails, the failure is     *)
(* surfaced and no Document row is created; a Document row exists only if  *)
(* its file write completed, and its recorded path is the one written.     *)
(***************************************************************************)
Uploads == {Deck}

FailedWriteKeepsStore ==
    (last'.op = "save_document" /\ last'.err = "storage") => store' = store

WriteFailureIsSurfaced ==
    \A c \in Ids(campaigns), up_name \in {Deck, Blank}, upload \in Uploads :
       /\ SaveDocumentOutcome(up_name, upload, FALSE) = "storage"
       /\ SaveDocumentEffect(c, up_name, upload, FALSE) = documents
       /\ \A d \in SaveDocumentEffect(c, up_name, upload, TRUE) \ documents :
            d.file_path = save_uploaded_file(upload, TRUE)

StoredDocumentsHaveWrittenPath ==
    \A d \in documents :
       \E upload \in Uploads : d.file_path = save_uploaded_file(upload, TRUE)

C21_FailedFileWriteStoresNoDocument ==
    /\ [](WriteFailureIsSurfaced /\ StoredDocumentsHaveWrittenPath)
    /\ [][FailedWriteKeepsStore]_vars

C21_Witness ==
    /\ last.op = "save_document"
    /\ last.err = "storage"
    /\ documents = {}
    /\ campaigns # {}

(***************************************************************************)
(* C22: conversion is unconditional.  Converting a Contact whose status is *)
(* already "converted" succeeds, adds one more Opportunity to that Contact *)
(* and leaves its status "converted"; a Contact that was never converted   *)
(* has no Opportunity, so a Contact converted k times has k Opportunities. *)
(***************************************************************************)
OpportunitiesOf(opps, contact_id) == {o \in opps : o.contact_id = contact_id}

AcceptedConversions == {sa \in ConversionInputs : sa[2] >= MinAmount}

C22_ConvertedContactConvertsAgain ==
    \A c \in contacts :
       /\ c.status = "new" => OpportunitiesOf(opportunities, c.id) = {}
       /\ c.status = "converted" =>
            \A sa \in AcceptedConversions :
               LET out == ConvertResult(c.id, sa[1], sa[2])
               IN /\ ConvertOutcome(c.id, sa[2]) = "none"
                  /\ Cardinality(OpportunitiesOf(out.opportunities, c.id))
                       = Cardinality(OpportunitiesOf(opportunities, c.id)) + 1
                  /\ OpportunitiesOf(opportunities, c.id)
                       \subseteq OpportunitiesOf(out.opportunities, c.id)
                  /\ Row(out.contacts, c.id).status = "converted"

C22_Witness ==
    /\ last = Done("convert", "none")
    /\ \E c \in contacts :
         /\ c.status = "converted"
         /\ Cardinality(OpportunitiesOf(opportunities, c.id)) = 2

(***************************************************************************)
(* C23: no operation removes or rewrites an Activity.  Across every step   *)
(* of campaign creation, cadence creation, template addition, ingestion    *)
(* and conversion the set of stored Activities only grows, and each stored *)
(* Activity keeps its contact, type and content.                           *)
(***************************************************************************)
ActivitiesKept ==
    \A a \in activities :
       \E b \in activities' :
          /\ b.id = a.id
          /\ b.contact_id = a.contact_id
          /\ b.type = a.type
          /\ b.content = a.content

C23_ActivitiesOnlyGrow ==
    []UniqueIds(activities) /\ [][ActivitiesKept]_vars

C23_Witness ==
    /\ last = Done("add_cadence_activity", "none")
    /\ \E c \in contacts :
         Cardinality({a \in activities : a.contact_id = c.id}) = 2

(***************************************************************************)
(* C24: the next-best-action classifier is a total function of (account    *)
(* count, lead count, engaged count, exhausted count, opportunity count)   *)
(* that applies its rules in priority order: accounts < 10, then           *)
(* leads < 30, then engaged < 30, then exhausted/lead ratio > 0.70 with    *)
(* opportunities < 2, then the default.  It returns exactly one label for  *)
(* every input, "Reveal More Contacts" for accounts = 5 and leads = 0, and *)
(* never divides by zero: the ratio's denominator is at least 1.           *)
(***************************************************************************)
RatioAbove70(r) ==
    r.exhausted * 100 > 70 * (IF r.leads = 0 THEN 1 ELSE r.leads)

RuleOf(r) ==
    IF r.accounts < 10 THEN 1
    ELSE IF r.leads < 30 THEN 2
    ELSE IF r.engaged < 30 THEN 3
    ELSE IF RatioAbove70(r) /\ r.opportunities < 2 THEN 4
    ELSE 5

C24_NextBestActionIsTotalAndOrdered ==
    nba.label # NotComputed =>
       /\ nba.label \in ActionLabels
       /\ nba.label = "Reveal More Contacts" <=> RuleOf(nba) = 1
       /\ nba.label = "Bring more leads" <=> RuleOf(nba) = 2
       /\ nba.label = "Wait for more engagement" <=> RuleOf(nba) = 3
       /\ nba.label = "Consider modify campaign" <=> RuleOf(nba) = 4
       /\ (nba.accounts = 5 /\ nba.leads = 0) => nba.label = "Reveal More Contacts"

C24_Witness ==
    /\ nba.accounts = 5
    /\ nba.leads = 0
    /\ nba.label = "Reveal More Contacts"

(***************************************************************************)
(* C25: within one running app, after any sequence of Campaign creations   *)
(* and reads, the cached list of list_campaign_options is the stored       *)
(* Campaigns ordered by creation time, newest first: a successful creation *)
(* invalidates the cache before the list is read again, and no other       *)
(* operation changes the set of Campaigns.                                 *)
(***************************************************************************)
CachedListIsCurrent ==
    campaign_options.cached =>
       LET options == campaign_options.value
       IN /\ Len(options) = Cardinality(campaigns)
          /\ \A c \in campaigns :
               \E i \in 1..Len(options) : options[i] = <<c.name, c.id>>
          /\ \A i, j \in 1..Len(options) : i < j => options[i][2] > options[j][2]

OnlyCreationChangesCampaigns ==
    campaigns' # campaigns =>
       /\ last' = Done("create_campaign", "none")
       /\ ~campaign_options'.cached

C25_CachedCampaignListIsCurrent ==
    []CachedListIsCurrent /\ [][OnlyCreationChangesCampaigns]_vars

C25_Witness ==
    /\ last.op = "list_campaign_options"
    /\ campaign_options.cached
    /\ Len(campaign_options.value) = 2
    /\ Cardinality(campaigns) = 2

(***************************************************************************)
(* C26: in every reachable state each Contact's status is "new" or         *)
(* "converted", and it is "converted" exactly when the Contact has an      *)
(* Opportunity.  Ingestion creates Contacts as "new" and keeps the status  *)
(* of a stored Contact, only conversion sets "converted", and nothing sets *)
(* "active" or "paused", so the exhausted-lead count is 0.                 *)
(***************************************************************************)
StatusFollowsOpportunities ==
    \A c \in contacts :
       /\ c.status \in {"new", "converted"}
       /\ c.status = "converted" <=> (\E o \in opportunities : o.contact_id = c.id)

IngestionKeepsStatus ==
    \A cad \in Ids(cadences), df \in DfsScen :
       \A c \in IngestResult(cad, df, TemplatesOf(cad)).contacts :
          IF c.id \in Ids(contacts)
          THEN c.status = Row(contacts, c.id).status
          ELSE c.status = "new"

C26_StatusIsNewOrConverted ==
    /\ StatusFollowsOpportunities
    /\ IngestionKeepsStatus
    /\ \A camp \in Ids(campaigns) : Metrics(camp).exhausted_leads = 0

C26_Witness ==
    /\ last.op \in {"ingest_v1", "ingest_v2"}
    /\ \E c, d \in contacts :
         /\ c.status = "converted"
         /\ d.status = "new"
         /\ \E o \in opportunities : o.contact_id = c.id

(***************************************************************************)
(* C27: when actions run one at a time and every Contact is created by the *)
(* ingestion that applies the cadence's activities and is ingested only    *)
(* once, then after any sequence of template additions and ingestions each *)
(* Contact has exactly one Activity per template of its Cadence, with the  *)
(* template's type and content, whether the template was added before or   *)
(* after the Contact.                                                      *)
(***************************************************************************)
TemplatesOfCadence(cadence_id) ==
    {t \in cadence_activities : t.cadence_id = cadence_id}

OneActivityPerTemplate(acts, templates) ==
    /\ Cardinality(acts) = Cardinality(templates)
    /\ \E f \in [templates -> acts] :
         /\ \A t, u \in templates : t # u => f[t] # f[u]
         /\ \A t \in templates : f[t].type = t.type /\ f[t].content = t.content

C27_OneActivityPerTemplate ==
    \A c \in contacts :
       OneActivityPerTemplate({a \in activities : a.contact_id = c.id},
                              TemplatesOfCadence(c.cadence_id))

C27_Witness ==
    /\ last.op = "add_cadence_activity"
    /\ Cardinality(cadences) = 2
    /\ \E c \in contacts :
         /\ Cardinality(TemplatesOfCadence(c.cadence_id)) = 2
         /\ Cardinality({a \in activities : a.contact_id = c.id}) = 2

(***************************************************************************)
(* C28: when a template addition and an ingestion that applies the         *)
(* cadence's activities interleave on one Cadence (the ingestion reads the *)
(* template list in an earlier session than the one that writes its        *)
(* Contacts), every Contact created by the ingestion still ends with       *)
(* exactly one Activity for every template of the Cadence: none is missed  *)
(* and none is applied twice.                                              *)
(***************************************************************************)
C28_InterleavedIngestionAppliesEveryTemplate ==
    ~leads_run.running =>
       \A cad \in Ids(cadences) :
          \A c \in InCadence(contacts, cad) :
             \A t \in TemplatesOfCadence(cad) :
                Cardinality({a \in activities :
                               /\ a.contact_id = c.id
                               /\ a.type = t.type
                               /\ a.content = t.content})
                  = Cardinality({u \in TemplatesOfCadence(cad) :
                                   u.type = t.type /\ u.content = t.content})

(***************************************************************************)
(* C29: when two Campaign creations with the same name interleave so that  *)
(* both pass the name-exists check before either commits, at most one of   *)
(* them commits a Campaign: the store never holds two Campaigns with that  *)
(* name, and the losing creation leaves no partial row.                    *)
(***************************************************************************)
NoTwoCampaignsWithOneName ==
    \A name \in {NameQ1, NameB} :
       Cardinality({c \in campaigns : c.name = name}) <= 1

LosingCreationKeepsStore ==
    last'.err = "IntegrityError" => store' = store

C29_InterleavedCreationsCommitOnce ==
    []NoTwoCampaignsWithOneName /\ [][LosingCreationKeepsStore]_vars

C29_Witness ==
    /\ last = Done("create_campaign", "IntegrityError")
    /\ creating = {}
    /\ Cardinality({c \in campaigns : c.name = NameQ1}) = 1

====
